---- MODULE Spec2Model ----
(***************************************************************************)
(* Candidate aggregation and scoring pipeline of the GitHub candidate      *)
(* finder.  Two implementations of GithubCandidateFinder are modelled:     *)
(*   "scraper" : src/github_scraper.py (Streamlit application)             *)
(*   "api"     : src/api/main.py       (FastAPI backend)                   *)
(*                                                                         *)
(* Representation of Python values:                                        *)
(*   - a string is a sequence of tokens; string concatenation is \o, the   *)
(*     empty string (and None where the code only tests truthiness) is     *)
(*     <<>> for texts and "" for single-token values;                      *)
(*   - a contribution heading is a sequence of one-character tokens;       *)
(*   - a dict with insertion order is a sequence of <<key, value>> pairs;  *)
(*   - a score is held in hundredths (the resolution of round(x, 2) in     *)
(*     src/api/main.py), so 100 points are 10000.                          *)
(***************************************************************************)
EXTENDS Integers, Sequences, FiniteSets, TLC

VARIABLES
    entry,        \* how the run is entered: "main", "endpoint" or "direct"
    impl,         \* which GithubCandidateFinder: "scraper" or "api"
    requirement,  \* argument of search_candidates
    location,     \* argument of search_candidates (scraper only), "" = None
    language,     \* argument of search_candidates (scraper only), "" = None
    limit,        \* argument of search_candidates (scraper), 10 in api
    users,        \* what the provider search returns: the kind of each user
    pc,           \* position of the run
    i,            \* number of loop iterations of search_candidates done
    candidates,   \* the local list candidates, in aggregation order
    result,       \* the list search_candidates returned
    error,        \* the exception the run ended with, "none" if none
    driver,       \* self.driver: "none", "open" or "quit"
    page,         \* the page the browser shows: [login, tab], login 0 = none
    netCalls,     \* number of network calls made so far
    query,        \* the query string handed to github.search_users
    fetched,      \* logins for which the per-candidate fetches were run
    dropped,      \* logins whose loop iteration ended in the except branch
    calls,        \* number of search_candidates calls on this finder
    text,         \* heading text handed to the contribution parser
    parsed,       \* what each implementation parsed from text
    user_data,    \* record handed to calculate_score
    scored,       \* what each implementation's calculate_score returned
    repoLanguages, \* language of each repository handed to get_user_languages
    languages     \* what each implementation's get_user_languages returned

vars == <<entry, impl, requirement, location, language, limit, users,
          pc, i, candidates, result, error, driver, page,
          netCalls, query, fetched, dropped, calls, text, parsed, user_data, scored,
          repoLanguages, languages>>

-----------------------------------------------------------------------------
(* Bounds of the model *)

\* longest provider result whose users are drawn freely
MaxUsers == 2
\* largest number of repositories handed to get_user_languages on its own
MaxRepos == 6
\* largest limit argument tried on a direct call
MaxLimit == 2
\* search_candidates calls made on one finder
MaxCalls == 2
\* longest heading text handed to the contribution parser
MaxTextLen == 4

-----------------------------------------------------------------------------
(* Generic helpers *)

Min(a, b) == IF a <= b THEN a ELSE b

Range(s) == {s[k] : k \in DOMAIN s}

\* Python's s[:n] for n >= 0
Take(s, n) == SubSeq(s, 1, Min(n, Len(s)))

SeqsUpTo(S, n) == UNION {[1..k -> S] : k \in 0..n}

-----------------------------------------------------------------------------
(* Contribution heading parsing *)

Digits == {"0", "1", "2", "3", "4", "5", "6", "7", "8", "9"}

DigitVal(c) ==
    CASE c = "0" -> 0 [] c = "1" -> 1 [] c = "2" -> 2 [] c = "3" -> 3
      [] c = "4" -> 4 [] c = "5" -> 5 [] c = "6" -> 6 [] c = "7" -> 7
      [] c = "8" -> 8 [] c = "9" -> 9

IsDigit(c) == c \in Digits

\* int(s) for a string of decimal digits
RECURSIVE IntOf(_)
IntOf(s) ==
    IF s = <<>> THEN 0
    ELSE 10 * IntOf(SubSeq(s, 1, Len(s) - 1)) + DigitVal(s[Len(s)])

\* ''.join(filter(str.isdigit, s))
OnlyDigits(s) == SelectSeq(s, IsDigit)

\* the longest prefix of s made of digits
RECURSIVE DigitPrefix(_)
DigitPrefix(s) ==
    IF s = <<>> \/ ~IsDigit(Head(s)) THEN <<>>
    ELSE <<Head(s)>> \o DigitPrefix(Tail(s))

\* re.search(r'\d+', s): the leftmost maximal run of digits, <<>> if no match
RECURSIVE FirstDigitRun(_)
FirstDigitRun(s) ==
    IF s = <<>> THEN <<>>
    ELSE IF IsDigit(Head(s)) THEN DigitPrefix(s)
    ELSE FirstDigitRun(Tail(s))

\* github_scraper.py: all digits of the text, concatenated
ScraperParseContributions(s) ==
    LET contributions == OnlyDigits(s)
    IN  IF contributions # <<>> THEN IntOf(contributions) ELSE 0

\* api/main.py: the first run of digits of the text as it stands
ApiParseContributions(s) ==
    LET match == FirstDigitRun(s)
    IN  IF match # <<>> THEN IntOf(match) ELSE 0

ParseContributions(im, s) ==
    IF im = "scraper" THEN ScraperParseContributions(s)
    ELSE ApiParseContributions(s)

-----------------------------------------------------------------------------
(* Word matching of calculate_score (github_scraper.py) *)

\* str.lower() on the words the model uses
Lower(w) ==
    CASE w = "Python" -> "python"
      [] w = "ML" -> "ml"
      [] OTHER -> w

\* set(re.findall(r'\w+', s.lower())) for a text given as its words
Terms(s) == {Lower(s[k]) : k \in DOMAIN s}

-----------------------------------------------------------------------------
(* Stable descending sort: sorted(xs, key=..., reverse=True) and           *)
(* xs.sort(key=..., reverse=True).  Python's sort is stable and reverse    *)
(* keeps the original order of elements with equal keys.  keys[k] is the   *)
(* sort key of s[k].                                                       *)

SortedDesc(s, keys) ==
    LET pos(k) == 1 + Cardinality({j \in DOMAIN s :
                        \/ keys[j] > keys[k]
                        \/ keys[j] = keys[k] /\ j < k})
    IN  [p \in DOMAIN s |-> s[CHOOSE k \in DOMAIN s : pos(k) = p]]

-----
(* Language aggregation *)

\* Counter over the non-empty language names of langs, as <<name, count>>
\* pairs in first-seen order
RECURSIVE CountLanguages(_)
CountLanguages(langs) ==
    IF langs = <<>> THEN <<>>
    ELSE LET rest == CountLanguages(SubSeq(langs, 1, Len(langs) - 1))
             lang == langs[Len(langs)]
         IN  IF lang = "" THEN rest
             ELSE IF \E k \in DOMAIN rest : rest[k][1] = lang
             THEN [k \in DOMAIN rest |->
                      IF rest[k][1] = lang THEN <<lang, rest[k][2] + 1>>
                      ELSE rest[k]]
             ELSE Append(rest, <<lang, 1>>)

\* Counter.most_common(n)
MostCommon(counter, n) ==
    Take(SortedDesc(counter, [k \in DOMAIN counter |-> counter[k][2]]), n)

-----------------------------------------------------------------------------
(* calculate_score *)

\* one "<label> <n> ... (+<points>)" element of the explanation
Entry(label, n, points) == [label |-> label, n |-> n, points |-> points]

\* the five subtotals of github_scraper.py calculate_score, in the order
\* they are computed; n is the number shown in the explanation element
ScraperSubtotals(ud, req) ==
    LET key_terms == Terms(req)
        bio_terms == Terms(ud.bio)
        matching_terms == IF ud.bio # <<>> THEN key_terms \cap bio_terms ELSE {}
    IN  [matched |-> matching_terms # {},
         term |-> Entry("Bio matches key terms", Cardinality(matching_terms),
                        Cardinality(matching_terms) * 10),
         lang |-> Entry("Uses languages", Len(ud.languages),
                        Min(Len(ud.languages) * 5, 25)),
         contrib |-> Entry("Has contributions", ud.contributions,
                           Min(ud.contributions \div 100, 25)),
         repo |-> Entry("Has public repos", ud.public_repos,
                        Min(ud.public_repos * 2, 25)),
         follower |-> Entry("Has followers", ud.followers,
                            Min(ud.followers \div 10, 25))]

\* 'score': min(score, 100)
ScraperNoClamp(score) == score

ScraperClamp(score) == Min(score, 100)

\* github_scraper.py calculate_score(user_data, requirement): the score in
\* hundredths and the explanation, whose ' | '-joined elements are a sequence
ScraperCalculateScore(ud, req) ==
    LET st == ScraperSubtotals(ud, req)
        score == st.term.points + st.lang.points + st.contrib.points
                    + st.repo.points + st.follower.points
    IN  [score |-> 100 * ScraperClamp(score),
         explanation |->
            (IF st.matched THEN <<st.term>> ELSE <<>>)
            \o <<st.lang, st.contrib, st.repo, st.follower>>]

\* round(x, 2) of x = n / 600, in hundredths (ties to even)
Round2Of600(n) ==
    LET q == n \div 6
        r == n % 6
    IN  IF r < 3 THEN q
        ELSE IF r > 3 THEN q + 1
        ELSE IF q % 2 = 0 THEN q ELSE q + 1

\* api/main.py calculate_score(user_data): the subtotals are fractions with
\* denominators 5, 200, 40 and 3, so the sum is kept exactly in 600ths
ApiCalculateScore(ud) ==
    LET repos == Min(ud.public_repos, 50)
        followers == Min(ud.followers, 1000)
        contributions == Min(ud.contributions, 1000)
        language_count == Len(ud.languages)
        pinned_count == Len(ud.pinned_repos)
        score == repos * 240                           \* (repos / 50) * 20
                 + followers * 9                       \* (followers / 1000) * 15
                 + contributions * 15                  \* (contributions / 1000) * 25
                 + Min(language_count * 1200, 12000)   \* min((n / 10) * 20, 20)
                 + (IF ud.bio # <<>> THEN 3000 ELSE 0)
                 + (IF ud.location # "" THEN 3000 ELSE 0)
                 + pinned_count * 1000                 \* (pinned / 6) * 10
    IN  Round2Of600(Min(score, 60000))

-----------------------------------------------------------------------------
(* The provider's data: the search returns a sequence of users, each of a  *)
(* kind of KindList; UserOf gives the data of a user of a kind.            *)
(*   api      : outcome of the structured source for this user's profile   *)
(*              ("ok", "auth", "ratelimit" or "error")                     *)
(*   reposApi : outcome of listing the user's repositories through the API *)
(*   page     : outcome of loading the user's pages in the browser:        *)
(*              "ok", "timeout" (driver.get raises) or "missing" (the page *)
(*              loads and holds none of the elements looked for)           *)
(*   repoLangs: the language of each repository, "" for none               *)
(*   heading  : text of the contributions heading of the profile page      *)
(*   pinned   : labels of the pinned repositories on the profile page      *)

BaseUser ==
    [api |-> "ok", reposApi |-> "ok", name |-> "Ann",
     bio |-> <<"Python", "dev">>, location |-> "Remote",
     public_repos |-> 12, followers |-> 30,
     repoLangs |-> <<"Python", "Go", "", "Python">>,
     page |-> "ok",
     heading |-> <<"1", ",", "2", "5", "0", " ", "c", " ", "2", "0", "2", "4">>,
     pinned |-> <<"r1", "r2">>]

PlainUser ==
    [api |-> "ok", reposApi |-> "ok", name |-> "",
     bio |-> <<>>, location |-> "",
     public_repos |-> 0, followers |-> 0,
     repoLangs |-> <<>>,
     page |-> "ok",
     heading |-> <<"c">>,
     pinned |-> <<"r1", "r2", "r3", "r4", "r5", "r6", "r7">>]

\* the kinds of user the model draws provider results from; for the first
\* four the structured source raises no authentication or rate-limit error
NonFatalKindList == <<"base", "timeout", "apierror", "plain">>

KindList ==
    NonFatalKindList \o <<"auth", "missing", "ratelimit", "reposlimit">>

\* the data of a user of the given kind
UserOf(kind) ==
    CASE kind = "base" -> BaseUser
      [] kind = "timeout" -> [BaseUser EXCEPT !.page = "timeout"]
      [] kind = "apierror" -> [BaseUser EXCEPT !.api = "error"]
      [] kind = "plain" -> PlainUser
      [] kind = "auth" -> [BaseUser EXCEPT !.api = "auth"]
      [] kind = "missing" -> [BaseUser EXCEPT !.page = "missing"]
      [] kind = "ratelimit" -> [BaseUser EXCEPT !.api = "ratelimit"]
      [] kind = "reposlimit" -> [BaseUser EXCEPT !.reposApi = "ratelimit"]

Kinds == Range(KindList)

\* for k in users[:10] of api/main.py
ApiLimit == 10

\* limit=50, the default of github_scraper.py, used by main()
DefaultLimit == 50

\* provider results longer than ApiLimit, the kinds taken in turn from
\* NonFatalKindList or from KindList
LongResults ==
    {[k \in 1..(ApiLimit + 1) |-> list[(k % Len(list)) + 1]] :
        list \in {NonFatalKindList, KindList}}

Logins == <<"u01", "u02", "u03", "u04", "u05", "u06",
            "u07", "u08", "u09", "u10", "u11", "u12">>

\* user.login of the k-th user of the provider's result
LoginOf(k) == Logins[k]

\* contribution_streak when the heading is not found
NA == <<"N/A">>

NoPage == [login |-> 0, tab |-> "none"]

-----------------------------------------------------------------------------
(* Browser session *)

\* self.driver.get(url) for the page `tab` of the k-th user: raises when the
\* session is not open or the page cannot be loaded, else the browser shows
\* that page
DriverGet(us, drv, pg, k, tab) ==
    IF drv = "open" /\ UserOf(us[k]).page # "timeout"
    THEN [ok |-> TRUE, page |-> [login |-> k, tab |-> tab]]
    ELSE [ok |-> FALSE, page |-> pg]

\* the elements a selector finds are those of the page the browser shows
HasElements(us, pg) == pg.login # 0 /\ UserOf(us[pg.login]).page = "ok"

LangElements(us, pg) ==
    IF HasElements(us, pg) /\ pg.tab = "repositories"
    THEN UserOf(us[pg.login]).repoLangs ELSE <<>>

PinnedElements(us, pg) ==
    IF HasElements(us, pg) /\ pg.tab = "profile"
    THEN UserOf(us[pg.login]).pinned ELSE <<>>

\* <<>> when the heading element is absent, else <<its text>>
HeadingElement(us, pg) ==
    IF HasElements(us, pg) /\ pg.tab = "profile"
    THEN <<UserOf(us[pg.login]).heading>> ELSE <<>>

\* a driver.get attempt on an open session is a network call
GetCost(drv) == IF drv = "open" THEN 1 ELSE 0

-----------------------------------------------------------------------------
(* github_scraper.py: the scraped fields.  Each operator gives the value    *)
(* returned and the page the browser shows afterwards.                      *)

ScraperGetUserLanguages(us, drv, pg, k) ==
    LET g == DriverGet(us, drv, pg, k, "repositories")
    IN  [val |-> IF g.ok
                 THEN MostCommon(CountLanguages(LangElements(us, g.page)), 5)
                 ELSE <<>>,
         page |-> g.page]

ScraperGetContributionCount(us, drv, pg, k) ==
    LET g == DriverGet(us, drv, pg, k, "profile")
        h == HeadingElement(us, g.page)
    IN  [val |-> IF g.ok /\ h # <<>>
                 THEN ScraperParseContributions(h[1])
                 ELSE 0,
         page |-> g.page]

ScraperGetUserDetails(us, drv, pg, k) ==
    LET g == DriverGet(us, drv, pg, k, "profile")
        h == HeadingElement(us, g.page)
    IN  [val |-> IF g.ok
                 THEN [pinned_repos |-> Take(PinnedElements(us, g.page), 6),
                       contribution_streak |-> IF h # <<>> THEN h[1] ELSE NA]
                 ELSE [pinned_repos |-> <<>>, contribution_streak |-> NA],
         page |-> g.page]

\* body of the try block of search_candidates for the k-th user:
\* raised = the block left by an exception
ScraperProcessUser(us, drv, pg, k, req) ==
    IF UserOf(us[k]).api # "ok"
    THEN [raised |-> TRUE, reason |-> UserOf(us[k]).api, page |-> pg, net |-> 1]
    ELSE
      LET u == UserOf(us[k])
          langs == ScraperGetUserLanguages(us, drv, pg, k)
          contrib == ScraperGetContributionCount(us, drv, langs.page, k)
          details == ScraperGetUserDetails(us, drv, contrib.page, k)
          data == [bio |-> u.bio,
                   public_repos |-> u.public_repos,
                   followers |-> u.followers,
                   languages |-> langs.val,
                   contributions |-> contrib.val]
          analysis == ScraperCalculateScore(data, req)
      IN  [raised |-> FALSE,
           reason |-> "none",
           record |->
              [login |-> LoginOf(k),
               name |-> IF u.name # "" THEN u.name ELSE LoginOf(k),
               bio |-> u.bio,
               location |-> u.location,
               public_repos |-> u.public_repos,
               followers |-> u.followers,
               profile_url |-> <<"https://github.com/", LoginOf(k)>>,
               languages |-> langs.val,
               contributions |-> contrib.val,
               pinned_repos |-> details.val.pinned_repos,
               contribution_streak |-> details.val.contribution_streak,
               score |-> analysis.score,
               explanation |-> analysis.explanation],
           page |-> details.page,
           net |-> 1 + 3 * GetCost(drv)]

-----------------------------------------------------------------------------
(* api/main.py: the per-user fetches *)

ApiGetUserLanguages(us, k) ==
    IF UserOf(us[k]).api = "ok" /\ UserOf(us[k]).reposApi = "ok"
    THEN CountLanguages(UserOf(us[k]).repoLangs)
    ELSE <<>>

ApiGetContributionCount(us, drv, pg, k) ==
    LET g == DriverGet(us, drv, pg, k, "profile")
        h == HeadingElement(us, g.page)
    IN  [val |-> IF g.ok /\ h # <<>>
                 THEN ApiParseContributions(h[1])
                 ELSE 0,
         page |-> g.page]

\* get_user_details followed by calculate_score and the candidate dict:
\* raised = get_user_details re-raised an exception
ApiProcessUser(us, drv, pg, k, req) ==
    LET u == UserOf(us[k])
        g == DriverGet(us, drv, pg, k, "profile")
        pinned == PinnedElements(us, g.page)
        h == HeadingElement(us, g.page)
    IN  IF u.api # "ok"
        THEN [raised |-> TRUE, reason |-> u.api, page |-> pg, net |-> 1]
        ELSE IF ~g.ok \/ pinned = <<>> \/ h = <<>>
        THEN [raised |-> TRUE, reason |-> "scrape", page |-> g.page,
              net |-> 1 + GetCost(drv)]
        ELSE
          LET contrib == ApiGetContributionCount(us, drv, g.page, k)
              details == [name |-> IF u.name # "" THEN u.name ELSE LoginOf(k),
                          bio |-> u.bio,
                          location |-> u.location,
                          languages |-> ApiGetUserLanguages(us, k),
                          contributions |-> contrib.val,
                          public_repos |-> u.public_repos,
                          followers |-> u.followers,
                          pinned_repos |-> pinned,
                          contribution_streak |-> h[1],
                          profile_url |-> <<"https://github.com/", LoginOf(k)>>]
          IN  [raised |-> FALSE,
               reason |-> "none",
               record |->
                  details @@
                  [score |-> ApiCalculateScore(details),
                   explanation |-> <<[text |-> <<"Matched based on ">> \o req]>>],
               page |-> contrib.page,
               net |-> 5]

ProcessUser(im, us, drv, pg, k, req) ==
    IF im = "scraper" THEN ScraperProcessUser(us, drv, pg, k, req)
    ELSE ApiProcessUser(us, drv, pg, k, req)

-----------------------------------------------------------------------------
(* search_candidates *)

\* the query string handed to github.search_users
ScraperBuildQuery(req, loc, lang) ==
    req \o (IF loc # "" THEN <<" location:", loc>> ELSE <<>>)
        \o (IF lang # "" THEN <<" language:", lang>> ELSE <<>>)

ApiBuildQuery(req) == req \o <<" type:user">>

BuildQuery(im, req, loc, lang) ==
    IF im = "scraper" THEN ScraperBuildQuery(req, loc, lang)
    ELSE ApiBuildQuery(req)

\* users[:limit]
SliceAll(us, lim) == us

Slice(us, lim) == Take(us, lim)

Batch == Slice(users, limit)

\* the loop index after the except branch of the k-th of n iterations:
\* `continue` goes on with the next user
BreakOnError(k, n) == n

AfterError(k, n) == k

\* the order a sort gives that reverses records of equal score
RankUnstable(cands) ==
    LET pos(k) == 1 + Cardinality({j \in DOMAIN cands :
                        \/ cands[j].score > cands[k].score
                        \/ cands[j].score = cands[k].score /\ j > k})
    IN  [p \in DOMAIN cands |-> cands[CHOOSE k \in DOMAIN cands : pos(k) = p]]

\* sorted(candidates, key=lambda x: x['score'], reverse=True)
Rank(cands) == SortedDesc(cands, [k \in DOMAIN cands |-> cands[k].score])

\* what leaves the entry point when exception e is raised: the endpoint
\* turns every exception into HTTPException(500)
Surfaced(e) == IF entry = "endpoint" THEN "HTTPException" ELSE e

-----------------------------------------------------------------------------
(* Inputs *)

Requirements == {<<>>, <<"python">>, <<"Python", "dev", "ML">>}

IdleText == <<>>
IdleUserData ==
    [bio |-> <<>>, location |-> "", public_repos |-> 0, followers |-> 0,
     languages |-> <<>>, contributions |-> 0, pinned_repos |-> <<>>]
IdleScored == [score |-> 0, explanation |-> <<>>]

FunctionVarsIdle ==
    /\ text = IdleText
    /\ parsed = 0
    /\ user_data = IdleUserData
    /\ scored = IdleScored
    /\ repoLanguages = <<>>
    /\ languages = <<>>

functionVars == <<text, parsed, user_data, scored, repoLanguages, languages>>

Init ==
    /\ entry \in {"main", "endpoint", "direct"}
    /\ impl \in {"scraper", "api"}
    /\ entry = "main" => impl = "scraper"
    /\ entry = "endpoint" => impl = "api"
    /\ requirement \in Requirements
    /\ location \in (IF entry = "direct" /\ impl = "scraper"
                     THEN {"", "Berlin"} ELSE {""})
    /\ language \in (IF entry = "direct" /\ impl = "scraper"
                     THEN {"", "Go"} ELSE {""})
    /\ limit \in (IF impl = "api" THEN {ApiLimit}
                  ELSE IF entry = "main" THEN {DefaultLimit}
                  ELSE 0..MaxLimit)
    /\ users \in SeqsUpTo(Kinds, MaxUsers) \cup LongResults
    /\ pc = "start"
    /\ i = 0
    /\ candidates = <<>>
    /\ result = <<>>
    /\ error = "none"
    /\ driver = "none"
    /\ page = NoPage
    /\ netCalls = 0
    /\ query = <<>>
    /\ fetched = <<>>
    /\ dropped = {}
    /\ calls = 0
    /\ FunctionVarsIdle

-----------------------------------------------------------------------------
(* Actions *)

\* main(): `if not requirement: st.error(...); return`
MainRejectEmpty ==
    /\ entry = "main"
    /\ pc = "start"
    /\ requirement = <<>>
    /\ pc' = "rejected"
    /\ UNCHANGED <<entry, impl, requirement, location, language, limit, users,
                   i, candidates, result, error, driver, page, netCalls,
                   query, fetched, dropped, calls>>
    /\ UNCHANGED functionVars

\* GithubCandidateFinder(): token lookup, credential check against the API,
\* start of the browser session
Construct ==
    /\ pc = "start"
    /\ entry = "main" => requirement # <<>>
    /\ \E outcome \in {"ok", "notoken", "auth", "webdriver"} :
        /\ pc' = IF outcome = "ok" THEN "ready" ELSE "raised"
        /\ error' = IF outcome = "ok" THEN "none" ELSE Surfaced(outcome)
        /\ driver' = IF outcome = "ok" THEN "open" ELSE "none"
        /\ netCalls' = netCalls
                       + (IF outcome = "notoken" THEN 0 ELSE 1)
                       + (IF impl = "scraper" /\ outcome \in {"ok", "webdriver"}
                          THEN 1 ELSE 0)
    /\ UNCHANGED <<entry, impl, requirement, location, language, limit, users,
                   i, candidates, result, page, query, fetched, dropped, calls>>
    /\ UNCHANGED functionVars

\* search_candidates up to the loop: the query is built and handed to the
\* provider; a failure of the search or of the iteration over its result
\* leaves search_candidates as an exception
SearchBegin ==
    /\ \/ pc = "ready"
       \/ pc \in {"returned", "raised"} /\ entry = "direct" /\ driver # "none"
    /\ calls < MaxCalls
    /\ calls' = calls + 1
    /\ query' = BuildQuery(impl, requirement, location, language)
    /\ netCalls' = netCalls + 1
    /\ i' = 0
    /\ candidates' = <<>>
    /\ fetched' = <<>>
    /\ dropped' = {}
    /\ result' = <<>>
    /\ \E outcome \in {"ok", "auth", "ratelimit"} :
        /\ pc' = IF outcome = "ok" THEN "loop" ELSE "raised"
        /\ error' = IF outcome = "ok" THEN "none" ELSE Surfaced(outcome)
    /\ UNCHANGED <<entry, impl, requirement, location, language, limit, users,
                   driver, page>>
    /\ UNCHANGED functionVars

\* one iteration of `for user in users[:limit]`
ProcessNext ==
    /\ pc = "loop"
    /\ i < Len(Batch)
    /\ LET k == i + 1
           r == ProcessUser(impl, Batch, driver, page, k, requirement)
       IN  /\ candidates' = IF r.raised THEN candidates
                            ELSE Append(candidates, r.record)
           /\ i' = IF r.raised THEN AfterError(k, Len(Batch)) ELSE k
           /\ page' = r.page
           /\ netCalls' = netCalls + r.net
           /\ fetched' = Append(fetched, LoginOf(k))
           /\ dropped' = IF r.raised THEN dropped \cup {LoginOf(k)} ELSE dropped
    /\ UNCHANGED <<entry, impl, requirement, location, language, limit, users,
                   pc, result, error, driver, query, calls>>
    /\ UNCHANGED functionVars

\* self.driver after the loop
SessionKept(im, drv) == drv

\* github_scraper.py ends search_candidates with self.driver.quit();
\* api/main.py has no such line
DriverQuit(im, drv) == IF im = "scraper" THEN "quit" ELSE drv

\* after the loop: github_scraper.py quits the browser session; the
\* candidates are sorted and returned
SearchReturn ==
    /\ pc = "loop"
    /\ i = Len(Batch)
    /\ driver' = DriverQuit(impl, driver)
    /\ result' = Rank(candidates)
    /\ pc' = "returned"
    /\ UNCHANGED <<entry, impl, requirement, location, language, limit, users,
                   i, candidates, error, page, netCalls, query, fetched, dropped, calls>>
    /\ UNCHANGED functionVars

Next ==
    \/ MainRejectEmpty
    \/ Construct
    \/ SearchBegin
    \/ ProcessNext
    \/ SearchReturn

Spec == Init /\ [][Next]_vars

-----------------------------------------------------------------------------
(* The contribution parser on its own: every heading text over Chars up to  *)
(* MaxTextLen characters is handed to each implementation's parser.         *)

Chars == {"1", "0", ",", " ", "c"}

PipelineIdle ==
    /\ entry = "direct"
    /\ location = ""
    /\ language = ""
    /\ limit = 0
    /\ users = <<>>
    /\ i = 0
    /\ candidates = <<>>
    /\ result = <<>>
    /\ error = "none"
    /\ driver = "none"
    /\ page = NoPage
    /\ netCalls = 0
    /\ query = <<>>
    /\ fetched = <<>>
    /\ dropped = {}
    /\ calls = 0

InitContrib ==
    /\ PipelineIdle
    /\ requirement = <<>>
    /\ impl \in {"scraper", "api"}
    /\ pc = "heading"
    /\ text \in SeqsUpTo(Chars, MaxTextLen)
    /\ parsed = 0
    /\ user_data = IdleUserData
    /\ scored = IdleScored
    /\ repoLanguages = <<>>
    /\ languages = <<>>

\* get_contribution_count once the heading element is found
GetContributionCount ==
    /\ pc = "heading"
    /\ parsed' = ParseContributions(impl, text)
    /\ pc' = "parsed"
    /\ UNCHANGED <<entry, impl, requirement, location, language, limit, users,
                   i, candidates, result, error, driver, page, netCalls,
                   query, fetched, dropped, calls, text, user_data, scored,
                   repoLanguages, languages>>

NextContrib == GetContributionCount

SpecContrib == InitContrib /\ [][NextContrib]_vars

-----------------------------------------------------------------------------
(* calculate_score on its own *)

LangNames == <<"Python", "Go", "C", "Rust", "Java", "Ruby", "Perl", "Lua",
               "R", "Zig", "Nim">>

LanguagesOfLen(n) == [k \in 1..n |-> <<LangNames[k], 1>>]

PinnedOfLen(n) == [k \in 1..n |-> "repo"]

ScoreInputs ==
    [bio : {<<>>, <<"Python", "dev">>,
            <<"Python", "dev", "ML", "go", "rust", "java", "api", "web",
              "data", "cloud", "ops">>},
     location : {"", "Remote"},
     public_repos : {0, 1, 13, 51},
     followers : {0, 15, 250, 1001},
     languages : {LanguagesOfLen(n) : n \in {0, 1, 5, 11}},
     contributions : {0, 150, 2500, 99999},
     pinned_repos : {PinnedOfLen(n) : n \in {0, 6, 60}}]

ScoreRequirements ==
    Requirements \cup
    {<<"python", "dev", "ml", "go", "rust", "java", "api", "web", "data",
       "cloud", "ops">>}

InitScore ==
    /\ PipelineIdle
    /\ impl \in {"scraper", "api"}
    /\ requirement \in (IF impl = "scraper" THEN ScoreRequirements ELSE {<<>>})
    /\ pc = "score"
    /\ user_data \in ScoreInputs
    /\ scored = IdleScored
    /\ text = IdleText
    /\ parsed = 0
    /\ repoLanguages = <<>>
    /\ languages = <<>>

\* calculate_score; api/main.py returns the score alone
CalculateScore ==
    /\ pc = "score"
    /\ scored' = IF impl = "scraper"
                 THEN ScraperCalculateScore(user_data, requirement)
                 ELSE [score |-> ApiCalculateScore(user_data)]
    /\ pc' = "scored"
    /\ UNCHANGED <<entry, impl, requirement, location, language, limit, users,
                   i, candidates, result, error, driver, page, netCalls,
                   query, fetched, dropped, calls, text, parsed, user_data,
                   repoLanguages, languages>>

NextScore == CalculateScore

SpecScore == InitScore /\ [][NextScore]_vars

-----------------------------------------------------------------------------
(* get_user_languages on its own: every list of up to MaxRepos repository   *)
(* languages over RepoLanguageNames is handed to each implementation's      *)
(* aggregation. "" stands for a repository without a language.              *)

RepoLanguageNames == {"Python", "Go", "C", "Rust", "Java", "Ruby", ""}

InitLang ==
    /\ PipelineIdle
    /\ requirement = <<>>
    /\ impl \in {"scraper", "api"}
    /\ pc = "repos"
    /\ repoLanguages \in SeqsUpTo(RepoLanguageNames, MaxRepos)
    /\ languages = <<>>
    /\ text = IdleText
    /\ parsed = 0
    /\ user_data = IdleUserData
    /\ scored = IdleScored

\* get_user_languages once the repository languages are read:
\* github_scraper.py returns dict(languages.most_common(5)),
\* api/main.py returns dict(languages)
GetUserLanguages ==
    /\ pc = "repos"
    /\ languages' = IF impl = "scraper"
                    THEN MostCommon(CountLanguages(repoLanguages), 5)
                    ELSE CountLanguages(repoLanguages)
    /\ pc' = "aggregated"
    /\ UNCHANGED <<entry, impl, requirement, location, language, limit, users,
                   i, candidates, result, error, driver, page, netCalls,
                   query, fetched, dropped, calls, text, parsed, user_data,
                   scored, repoLanguages>>

NextLang == GetUserLanguages

SpecLang == InitLang /\ [][NextLang]_vars

-----------------------------------------------------------------------------
(* Claims about the pure functions *)

\* C4: for every record with non-negative counts, any language map, pinned
\* list, bio and requirement, the score calculate_score returns is between 0
\* and 100 (0 and 10000 hundredths), in both implementations.
C4_ScoreInRange ==
    pc = "scored" => scored.score >= 0 /\ scored.score <= 10000

\* the subtotals of the scraper add up to more than 100 and the result is 100
C4_Witness ==
    /\ pc = "scored"
    /\ impl = "scraper"
    /\ LET st == ScraperSubtotals(user_data, requirement)
       IN  st.term.points + st.lang.points + st.contrib.points
             + st.repo.points + st.follower.points > 100
    /\ scored.score = 10000

NonZero(e) == e.points # 0

\* C8: the explanation holds one element for exactly the score components
\* whose subtotal is non-zero, in computation order (bio match, languages,
\* contributions, repositories, followers).
C8_ExplanationOnlyNonZero ==
    (pc = "scored" /\ impl = "scraper") =>
        LET st == ScraperSubtotals(user_data, requirement)
        IN  scored.explanation =
              SelectSeq(<<st.term, st.lang, st.contrib, st.repo, st.follower>>,
                        NonZero)

NotSeparator(c) == c # ","

\* the integer value of the first run of digits of the text once thousand
\* separators are removed, 0 when there is no digit
FirstRunAfterStrip(s) ==
    LET run == FirstDigitRun(SelectSeq(s, NotSeparator))
    IN  IF run # <<>> THEN IntOf(run) ELSE 0

\* C9: get_contribution_count returns the integer value of the first run of
\* digits of the heading text after thousand separators are removed, and 0
\* when the text has no digit.
C9_FirstRunAfterStrip ==
    pc = "parsed" => parsed = FirstRunAfterStrip(text)

\* aggregated weight of a language: each repository naming it weighs 1
WeightOf(l, repos) == Cardinality({k \in DOMAIN repos : repos[k] = l})

FirstSeen(l, repos) ==
    CHOOSE k \in DOMAIN repos :
        repos[k] = l /\ \A j \in 1..(k - 1) : repos[j] # l

SeenLanguages(repos) == Range(repos) \ {""}

\* a is preferred to b: larger weight, or equal weight and seen first
PreferredTo(a, b, repos) ==
    \/ WeightOf(a, repos) > WeightOf(b, repos)
    \/ /\ WeightOf(a, repos) = WeightOf(b, repos)
       /\ FirstSeen(a, repos) < FirstSeen(b, repos)

\* the languages fewer than five others are preferred to
FiveLargest(repos) ==
    {l \in SeenLanguages(repos) :
        Cardinality({m \in SeenLanguages(repos) : PreferredTo(m, l, repos)}) < 5}

WeightsAreSums ==
    \A k \in DOMAIN languages :
        languages[k][2] = WeightOf(languages[k][1], repoLanguages)

ReturnsFiveLargest ==
    /\ Len(languages) <= 5
    /\ \A j, k \in DOMAIN languages :
           languages[j][1] = languages[k][1] => j = k
    /\ {languages[k][1] : k \in DOMAIN languages} = FiveLargest(repoLanguages)

\* C11: get_user_languages returns at most 5 languages, namely the 5 with
\* the largest weight summed over the user's repositories, languages of equal
\* weight preferred in the order they were first seen, and every returned
\* weight is the sum of that language's per-repository weights.
C11_TopFiveLanguages ==
    pc = "aggregated" => ReturnsFiveLargest /\ WeightsAreSums

\* the same statement for github_scraper.py alone
C11_ScraperTopFive ==
    (pc = "aggregated" /\ impl = "scraper") => ReturnsFiveLargest /\ WeightsAreSums

\* the weights alone, in both implementations
C11_WeightsAreSums ==
    pc = "aggregated" => WeightsAreSums

-----------------------------------------------------------------------------
(* Claims about search_candidates *)

UrlOf(k) == <<"https://github.com/", LoginOf(k)>>

Urls(cands) == {cands[k].profile_url : k \in DOMAIN cands}

FatalKinds == {"auth", "ratelimit"}

\* no user of the batch makes the structured source fail with an
\* authentication or rate-limit error
NoFatalInBatch ==
    \A k \in DOMAIN Batch :
        /\ UserOf(Batch[k]).api \notin FatalKinds
        /\ UserOf(Batch[k]).reposApi \notin FatalKinds

\* the scraped source fails for the k-th user of the batch while the
\* structured source answers
ScrapeFails(k) ==
    /\ UserOf(Batch[k]).api = "ok"
    /\ UserOf(Batch[k]).reposApi = "ok"
    /\ UserOf(Batch[k]).page \in {"timeout", "missing"}

\* C1: when the scraped source fails for a candidate of the batch, the list
\* returned still holds a record for that candidate, with contributions = 0,
\* pinned_repos = [] and contribution_streak = "N/A", in both implementations.
C1_ScrapeFailureKeepsRecord ==
    (pc = "returned" /\ requirement # <<>> /\ NoFatalInBatch) =>
        \A k \in DOMAIN Batch :
            ScrapeFails(k) =>
                \E r \in Range(result) :
                    /\ r.profile_url = UrlOf(k)
                    /\ r.contributions = 0
                    /\ r.pinned_repos = <<>>
                    /\ r.contribution_streak = NA

\* C2: if the structured source raises an authentication or rate-limit error
\* while a candidate is processed, search_candidates raises that error and
\* returns no list; it never goes on with the remaining candidates.
C2_FatalErrorAborts ==
    \A k \in 1..Len(fetched) :
        (requirement # <<>> /\ UserOf(Batch[k]).api \in FatalKinds) =>
            /\ pc = "raised"
            /\ error = Surfaced(UserOf(Batch[k]).api)
            /\ Len(fetched) = k

\* the batch with its a-th user replaced by one whose processing succeeds
Healthy(a) == [Batch EXCEPT ![a] = "base"]

\* C3: a candidate whose processing raises a non-fatal exception is dropped,
\* and the list returned holds exactly the records of the other processed
\* candidates, each as it would be had the failing candidate not failed
\* (in the same state, open or not, of the finder's browser session).
C3_FailureIsolated ==
    (pc = "returned" /\ NoFatalInBatch) =>
        /\ Len(result) = Len(fetched) - Cardinality(dropped)
        /\ Urls(result) =
              {UrlOf(k) : k \in {j \in DOMAIN Batch : LoginOf(j) \notin dropped}}
        /\ \E drv \in {"open", "quit"} :
            \A a \in DOMAIN Batch :
              LoginOf(a) \in dropped =>
                \A k \in DOMAIN Batch \ {a} :
                    LoginOf(k) \notin dropped =>
                        \E r \in Range(result) :
                            r = ProcessUser(impl, Healthy(a), drv,
                                            NoPage, k, requirement).record

\* a returned list after a non-fatal failure between two kept candidates
C3_Witness ==
    /\ pc = "returned"
    /\ NoFatalInBatch
    /\ \E a \in DOMAIN Batch :
        /\ LoginOf(a) \in dropped
        /\ a > 1 /\ a < Len(Batch)
        /\ LoginOf(a - 1) \notin dropped
        /\ LoginOf(a + 1) \notin dropped
    /\ Len(result) >= 2

\* position of the record with profile_url url in the list cands
IndexIn(cands, url) == CHOOSE k \in DOMAIN cands : cands[k].profile_url = url

\* C5: the list returned is ordered by non-increasing score, and records of
\* equal score keep the relative order in which they were appended to the
\* candidate list.
C5_RankedStable ==
    pc = "returned" =>
        \A a, b \in DOMAIN result :
            a < b =>
                /\ result[a].score >= result[b].score
                /\ result[a].score = result[b].score =>
                      IndexIn(candidates, result[a].profile_url)
                        < IndexIn(candidates, result[b].profile_url)

\* a returned list in which the sort moved a record ahead of an earlier one
\* and kept two records of equal score
C5_Witness ==
    /\ pc = "returned"
    /\ \E a, b \in DOMAIN result :
        a < b /\ result[a].score = result[b].score
    /\ \E a, b \in DOMAIN candidates :
        a < b /\ candidates[a].score < candidates[b].score

\* C6: a search with an empty requirement fails with an invalid-request
\* error before any network call is made, on every entry path: the request
\* handlers (main, /api/search) make no network call at all, and a direct
\* call of search_candidates does not reach the provider search.
C6_EmptyRequirementRejected ==
    requirement = <<>> =>
        /\ pc \in {"start", "rejected", "ready", "raised"}
        /\ entry \in {"main", "endpoint"} => netCalls = 0
        /\ entry = "direct" => calls = 0

\* C7: the per-candidate fetches run for at most `limit` ids, the first ones
\* of the query result; at most `limit` records are returned, each for a
\* distinct id among those; the ranking removes no record.
C7_LimitAndDistinct ==
    /\ Len(fetched) <= limit
    /\ Len(fetched) <= Len(users)
    /\ \A k \in DOMAIN fetched : fetched[k] = LoginOf(k)
    /\ pc = "returned" =>
        /\ Len(result) <= limit
        /\ Urls(result) \subseteq {UrlOf(k) : k \in 1..Min(limit, Len(users))}
        /\ Cardinality(Urls(result)) = Len(result)
        /\ Len(result) = Len(candidates)
        /\ Range(result) = Range(candidates)

\* a returned full batch cut from a longer query result
C7_Witness ==
    /\ pc = "returned"
    /\ limit >= 1
    /\ Len(users) > limit
    /\ Len(fetched) = limit
    /\ Len(result) >= 1

\* C10: the query handed to the provider search is "<requirement> type:user",
\* then " location:<loc>" exactly when a location filter is given, then
\* " language:<lang>" exactly when a language filter is given.
C10_QueryShape ==
    (calls > 0 /\ requirement # <<>>) =>
        query = requirement \o <<" type:user">>
                  \o (IF location # "" THEN <<" location:", location>> ELSE <<>>)
                  \o (IF language # "" THEN <<" language:", language>> ELSE <<>>)

\* a record whose scraped fields are all at their defaults
OnlyScrapedDefaults(r) ==
    /\ r.languages = <<>>
    /\ r.contributions = 0
    /\ r.pinned_repos = <<>>
    /\ r.contribution_streak = NA

\* C12: in github_scraper.py a normally returning search_candidates call
\* quits the finder's browser session and nothing reopens it, so in every
\* later call on the same finder each record appended and each record
\* returned carries only the scraped defaults (languages {}, contributions 0,
\* pinned_repos [], contribution_streak "N/A"); a call that exits by an
\* exception of the provider search leaves the session as it found it.
C12_SessionQuitOnReturn ==
    [][impl = "scraper" =>
        /\ (pc = "loop" /\ pc' = "returned") => driver' = "quit"
        /\ driver = "quit" =>
            /\ driver' = "quit"
            /\ \A k \in DOMAIN candidates' : OnlyScrapedDefaults(candidates'[k])
            /\ \A k \in DOMAIN result' : OnlyScrapedDefaults(result'[k])
        /\ (calls' = calls + 1 /\ pc' = "raised") => driver' = driver
      ]_vars

\* a second call on a finder whose first call returned: a user whose pages
\* all load in an open session is returned with the scraped defaults only
C12_Witness ==
    /\ impl = "scraper"
    /\ calls = 2
    /\ pc = "returned"
    /\ driver = "quit"
    /\ \E k \in DOMAIN Batch : \E j \in DOMAIN result :
        /\ Batch[k] = "base"
        /\ result[j].login = LoginOf(k)
        /\ OnlyScrapedDefaults(result[j])

\* a call that exits by the provider search's exception with the session open
C12_RaisedLeavesOpen ==
    /\ impl = "scraper"
    /\ calls >= 1
    /\ pc = "raised"
    /\ driver = "open"

====
